---- MODULE Spec2Model ----
(***************************************************************************)
(* Model of backend/api/views.py: the PHQ-9 assessment endpoints           *)
(* (assessment_submit, assessment_last), the crisis keyword gate           *)
(* (contains_sensitive) and the chat endpoints (chat, chat_history), with  *)
(* the in-memory stores CLIENT_ASSESSMENTS and CLIENT_CHATS.               *)
(*                                                                         *)
(* Each HTTP handler is one atomic action.  Text is a sequence of          *)
(* one-character strings; a non-ASCII character is written by its code     *)
(* point ("U+81EA").  JSON values are records [kind, val].                 *)
(***************************************************************************)
EXTENDS Integers, Sequences, FiniteSets, TLC

VARIABLES
  CLIENT_ASSESSMENTS,  \* views.py:14  client id -> list of assessment records
  CLIENT_CHATS,        \* views.py:16  client id -> list of chat records
  now,                 \* the instant datetime.utcnow() returns
  request,             \* the request being answered (history variable)
  response,            \* the Response the handler returned
  calls,               \* gate and generation-backend calls made while handling the request
  submitted,           \* history variable: per client, the data of every 200 of assessment_submit
  chatLog              \* history variable: per client, every exchange whose generation succeeded

vars == <<CLIENT_ASSESSMENTS, CLIENT_CHATS, now, request, response, calls, submitted, chatLog>>

----------------------------------------------------------------------------
(* Bounds of the model *)

MaxClock == 1
MaxAssessments == 2
MaxChats == 2

----------------------------------------------------------------------------
(* Python and JSON values *)

None == [kind |-> "null", val |-> 0]
JInt(n) == [kind |-> "int", val |-> n]
\* a JSON number with a fraction, in tenths: JFloat(35) is 3.5
JFloat(tenths) == [kind |-> "float", val |-> tenths]
JStr(chars) == [kind |-> "str", val |-> chars]
JList(items) == [kind |-> "list", val |-> items]

Clients == {"c1", "c2"}
\* no X-Client-Id header and no client_id parameter
NoClient == ""

Whitespace == {" ", "\t", "\n"}
Digits == <<"0", "1", "2", "3", "4", "5", "6", "7", "8", "9">>
UpperChars == <<"A", "B", "C", "D", "E", "F", "G", "H", "I", "J", "K", "L", "M",
                "N", "O", "P", "Q", "R", "S", "T", "U", "V", "W", "X", "Y", "Z">>
LowerChars == <<"a", "b", "c", "d", "e", "f", "g", "h", "i", "j", "k", "l", "m",
                "n", "o", "p", "q", "r", "s", "t", "u", "v", "w", "x", "y", "z">>

\* str.lower() on one character
LowerChar(c) ==
  IF \E i \in 1..26 : UpperChars[i] = c
  THEN LowerChars[CHOOSE i \in 1..26 : UpperChars[i] = c]
  ELSE c

\* str.lower()
Lower(t) == [i \in 1..Len(t) |-> LowerChar(t[i])]

\* k in t, for strings
IsSubstring(k, t) ==
  \E i \in 0..(Len(t) - Len(k)) : SubSeq(t, i + 1, i + Len(k)) = k

RECURSIVE LStrip(_)
LStrip(t) ==
  IF t # <<>> /\ Head(t) \in Whitespace THEN LStrip(Tail(t)) ELSE t

RECURSIVE RStrip(_)
RStrip(t) ==
  IF t # <<>> /\ t[Len(t)] \in Whitespace THEN RStrip(SubSeq(t, 1, Len(t) - 1)) ELSE t

\* str.strip()
Strip(t) == RStrip(LStrip(t))

\* bool(x) is False: None, 0, '', []
Falsy(x) ==
  \/ x.kind = "null"
  \/ x.kind \in {"int", "float"} /\ x.val = 0
  \/ x.kind \in {"str", "list"} /\ x.val = <<>>

\* x or default
OrElse(x, default) == IF Falsy(x) THEN default ELSE x

----------------------------------------------------------------------------
(* contains_sensitive, views.py:239-247 *)

keywords == <<
  <<"s", "u", "i", "c", "i", "d", "e">>,
  <<"d", "o", "n", "'", "t", " ", "w", "a", "n", "t", " ", "t", "o", " ", "l", "i", "v", "e">>,
  <<"k", "i", "l", "l", " ", "m", "y", "s", "e", "l", "f">>,
  <<"e", "n", "d", " ", "m", "y", " ", "l", "i", "f", "e">>,
  <<"U+4E0D", "U+60F3", "U+6D3B">>,
  <<"U+60F3", "U+81EA", "U+6740">>,
  <<"U+81EA", "U+6740">>,
  <<"U+8F7B", "U+751F">>,
  <<"U+5BFB", "U+77ED", "U+89C1">>,
  <<"U+6D3B", "U+4E0D", "U+4E0B", "U+53BB">> >>

RECURSIVE IntToChars(_)
IntToChars(n) ==
  IF n < 10 THEN <<Digits[n + 1]>> ELSE IntToChars(n \div 10) \o <<Digits[(n % 10) + 1]>>

\* str(x), for a string or a non-negative integer
PyStr(x) == IF x.kind = "str" THEN x.val ELSE IntToChars(x.val)

\* a faulty variant: the lower() of line 242 left out
contains_sensitive_nolower(text) ==
  IF Falsy(text)
  THEN FALSE
  ELSE \E t \in {PyStr(text)} :
         \E n \in 1..Len(keywords) : IsSubstring(keywords[n], t)

contains_sensitive(text) ==
  IF Falsy(text)
  THEN FALSE
  ELSE \E t \in {Lower(PyStr(text))} :
         \E n \in 1..Len(keywords) : IsSubstring(keywords[n], t)

----------------------------------------------------------------------------
(* int(x), as the list comprehension of views.py:201 applies it *)

IsDigit(c) == \E i \in 1..10 : Digits[i] = c
DigitVal(c) == (CHOOSE i \in 1..10 : Digits[i] = c) - 1

RECURSIVE DigitsVal(_)
DigitsVal(ds) ==
  IF ds = <<>> THEN 0 ELSE 10 * DigitsVal(SubSeq(ds, 1, Len(ds) - 1)) + DigitVal(ds[Len(ds)])

\* int(s) for a string: surrounding whitespace dropped, an optional sign, then digits
ParseInt(chars) ==
  LET s == Strip(chars)
      signed == s # <<>> /\ Head(s) \in {"-", "+"}
      ds == IF signed THEN Tail(s) ELSE s
  IN  IF ds # <<>> /\ \A i \in 1..Len(ds) : IsDigit(ds[i])
      THEN [ok |-> TRUE,
            val |-> IF signed /\ Head(s) = "-" THEN 0 - DigitsVal(ds) ELSE DigitsVal(ds)]
      ELSE [ok |-> FALSE, val |-> 0]

\* int(x): [ok |-> FALSE] is the exception line 202 catches
IntCoerce(x) ==
  CASE x.kind = "int" -> [ok |-> TRUE, val |-> x.val]
    [] x.kind = "float" ->
         [ok |-> TRUE,
          val |-> IF x.val >= 0 THEN x.val \div 10 ELSE 0 - ((0 - x.val) \div 10)]
    [] x.kind = "str" -> ParseInt(x.val)
    [] OTHER -> [ok |-> FALSE, val |-> 0]

RECURSIVE SumSeq(_)
\* sum(answers)
SumSeq(s) == IF s = <<>> THEN 0 ELSE Head(s) + SumSeq(Tail(s))

----------------------------------------------------------------------------
(* Responses *)

Response(status, body) == [status |-> status, body |-> body]
NoResponse == Response(0, [ok |-> FALSE])

MissingId ==
  Response(400, [ok |-> FALSE, message |-> "Missing anonymous ID (X-Client-Id or client_id)"])

\* get_client_id: the first non-empty of the header and the two parameters
get_client_id(req) == req.cid

----------------------------------------------------------------------------
(* grade_phq9, views.py:178-187 *)

\* a faulty variant: < for <=
grade_phq9_strict(total) ==
  IF total < 4 THEN "none-minimal"
  ELSE IF total < 9 THEN "mild"
  ELSE IF total < 14 THEN "moderate"
  ELSE IF total < 19 THEN "moderately severe"
  ELSE "severe"

grade_phq9(total) ==
  IF total <= 4 THEN "none-minimal"
  ELSE IF total <= 9 THEN "mild"
  ELSE IF total <= 14 THEN "moderate"
  ELSE IF total <= 19 THEN "moderately severe"
  ELSE "severe"

----------------------------------------------------------------------------
(* assessment_submit, views.py:190-223 *)

\* a faulty variant: the wrong item read as question 9
crisis_of_item8(answers) == answers[8] > 0

\* line 208
crisis_of(answers) == answers[9] > 0

\* a faulty variant: the total looked at before the crisis flag
risk_level_total_first(crisis, total) ==
  IF total >= 15 THEN "moderate" ELSE IF crisis THEN "high" ELSE "low"

\* line 217
risk_level(crisis, total) ==
  IF crisis THEN "high" ELSE IF total >= 15 THEN "moderate" ELSE "low"

\* lines 209-220
AssessmentRecord(answers, at) ==
  LET total == SumSeq(answers)
      level == grade_phq9(total)
      crisis == crisis_of(answers)
  IN  [answers |-> answers,
       total |-> total,
       level |-> level,
       crisis |-> crisis,
       ai |-> [summary |-> "Placeholder: AI will generate personalized summary later.",
               recommendations |-> <<"Example: daily mood check-in",
                                     "Example: 3-minute breathing exercise",
                                     "Example: cognitive restructuring twice weekly">>,
               risk_level |-> risk_level(crisis, total)],
       at |-> at]

\* {k: record[k] for k in ['total','level','crisis','ai','at']}
RecordData(rec) ==
  [total |-> rec.total, level |-> rec.level, crisis |-> rec.crisis, ai |-> rec.ai, at |-> rec.at]

AssessmentUnchanged ==
  /\ UNCHANGED <<CLIENT_ASSESSMENTS, submitted>>

ChatUnchanged ==
  /\ UNCHANGED <<CLIENT_CHATS, chatLog>>

assessment_submit(req) ==
  LET cid == get_client_id(req)
      answers == OrElse(req.answers, JList(<<>>))
  IN  /\ request' = req
      /\ calls' = <<>>
      /\ UNCHANGED now
      /\ ChatUnchanged
      /\ IF cid = NoClient
         THEN /\ response' = MissingId
              /\ AssessmentUnchanged
         ELSE IF answers.kind # "list" \/ Len(answers.val) # 9
         THEN /\ response' = Response(400, [ok |-> FALSE,
                   message |-> "Invalid parameters: should be 9 scores from 0-3"])
              /\ AssessmentUnchanged
         ELSE \E coerced \in {[i \in 1..9 |-> IntCoerce(answers.val[i])]} :
           IF \E i \in 1..9 : ~coerced[i].ok
           THEN /\ response' = Response(400, [ok |-> FALSE,
                     message |-> "Invalid parameters: scores must be integers"])
                /\ AssessmentUnchanged
           ELSE \E ints \in {[i \in 1..9 |-> coerced[i].val]} :
             IF \E i \in 1..9 : ints[i] < 0 \/ ints[i] > 3
             THEN /\ response' = Response(400, [ok |-> FALSE,
                       message |-> "Invalid parameters: each score must be 0-3"])
                  /\ AssessmentUnchanged
             ELSE \E record \in {AssessmentRecord(ints, now)} :
                  /\ CLIENT_ASSESSMENTS' =
                       [CLIENT_ASSESSMENTS EXCEPT ![cid] = Append(@, record)]
                  /\ submitted' = [submitted EXCEPT ![cid] = Append(@, RecordData(record))]
                  /\ response' = Response(200, [ok |-> TRUE, data |-> RecordData(record)])

----------------------------------------------------------------------------
(* assessment_last, views.py:226-236 *)

\* a faulty variant: the oldest record instead of the newest
last_item_first(items) == IF items # <<>> THEN items[1] ELSE None

\* items[-1] if items else None, line 233
last_item(items) == IF items # <<>> THEN items[Len(items)] ELSE None

assessment_last(req) ==
  LET cid == get_client_id(req)
      items == IF cid \in Clients THEN CLIENT_ASSESSMENTS[cid] ELSE <<>>
      last == last_item(items)
  IN  /\ request' = req
      /\ calls' = <<>>
      /\ UNCHANGED now
      /\ AssessmentUnchanged
      /\ ChatUnchanged
      /\ IF cid = NoClient
         THEN response' = MissingId
         ELSE IF last = None
         THEN response' = Response(200, [ok |-> TRUE, data |-> None])
         ELSE response' = Response(200, [ok |-> TRUE, data |-> RecordData(last)])

----------------------------------------------------------------------------
(* ai_service, the generation backend chat calls (backend/api/ai_service.py) *)

\* a key the result dict does not hold
Missing == "<missing>"

\* generate_response succeeded: the reply, and the model's name if it gives one
AiSuccesses ==
  { [success |-> TRUE, message |-> "reply one", model |-> "model-1", error |-> Missing],
    [success |-> TRUE, message |-> "reply two", model |-> Missing, error |-> Missing] }

\* generate_response failed: the result carries the fallback message for the client
AiFailures ==
  { [success |-> FALSE, message |-> "Sorry, I am having trouble responding right now.",
     model |-> Missing, error |-> "backend error"] }

AiResults == AiSuccesses \cup AiFailures

\* what ai_service answers to the calls of one request: is_available() is False, or
\* it is True and generate_response returns a result
AiAnswers ==
  { <<FALSE, r>> : r \in AiFailures } \cup { <<TRUE, r>> : r \in AiResults }

\* d.get(key, default)
DictGet(d, key, default) == IF d[key] = Missing THEN default ELSE d[key]

----------------------------------------------------------------------------
(* chat, views.py:250-322 *)

ChatCap == 50
ContextTurns == 10
HistoryWindow == 20

\* s[-n:]
LastN(s, n) == IF Len(s) > n THEN SubSeq(s, Len(s) - n + 1, Len(s)) ELSE s

Call(fn, args, result) == [fn |-> fn, args |-> args, result |-> result]

\* a faulty variant: an empty safety message
CrisisResponse_empty ==
  Response(200, [ok |-> TRUE, type |-> "crisis", message |-> "",
    hotlines |-> << [label |-> "Crisis hotline", number |-> "Contact local crisis hotline"] >>])

\* lines 266-275
CrisisResponse ==
  Response(200, [ok |-> TRUE, type |-> "crisis",
    message |-> "I hear that you are in great pain and even having thoughts of hurting yourself. Your safety is most important. Please immediately contact someone you trust or professional crisis support.",
    hotlines |-> <<
      [label |-> "Crisis hotline", number |-> "Contact local crisis hotline"],
      [label |-> "Emergency services", number |-> "Contact local emergency services"],
      [label |-> "Campus/community counseling", number |-> "Contact local organization"] >>])

\* lines 280-284
UnavailableResponse ==
  Response(200, [ok |-> TRUE, type |-> "support",
    message |-> "I understand this time has been difficult for you. Take three deep breaths and give yourself some space. If you'd like, you can try the breathing timer or cognitive restructuring in the \"Self-help Tools\", or we can continue talking about what's troubling you."])

\* lines 287-291: the last ten exchanges, as user and assistant turns
ContextOf(chat_history) ==
  LET recent == LastN(chat_history, ContextTurns)
  IN  [i \in 1..(2 * Len(recent)) |->
         IF i % 2 = 1
         THEN [role |-> "user", content |-> recent[(i + 1) \div 2].message]
         ELSE [role |-> "assistant", content |-> recent[i \div 2].response]]

\* a faulty variant: the backend asked before the gate
chat_calls_backend_first(message, context, available, result) ==
  IF ~available
  THEN << Call("is_available", <<>>, FALSE) >>
  ELSE IF contains_sensitive(JStr(message))
  THEN << Call("is_available", <<>>, TRUE), Call("contains_sensitive", <<message>>, TRUE) >>
  ELSE << Call("is_available", <<>>, TRUE),
          Call("contains_sensitive", <<message>>, FALSE),
          Call("generate_response", <<message, context>>, result) >>

\* lines 265, 278, 294: the calls chat makes for a non-empty message, in order, each
\* with what it returned
chat_calls(message, context, available, result) ==
  IF contains_sensitive(JStr(message))
  THEN << Call("contains_sensitive", <<message>>, TRUE) >>
  ELSE IF ~available
  THEN << Call("contains_sensitive", <<message>>, FALSE), Call("is_available", <<>>, FALSE) >>
  ELSE << Call("contains_sensitive", <<message>>, FALSE),
          Call("is_available", <<>>, TRUE),
          Call("generate_response", <<message, context>>, result) >>

\* a faulty variant: the oldest 50 kept
trim_chats_head(chats) == IF Len(chats) > ChatCap THEN SubSeq(chats, 1, ChatCap) ELSE chats

\* lines 306-307
trim_chats(chats) == IF Len(chats) > ChatCap THEN LastN(chats, ChatCap) ELSE chats

\* available and result are what ai_service answers if chat asks it
chat(req, available, result) ==
  LET cid == get_client_id(req)
      raw == OrElse(req.message, JStr(<<>>))
  IN  /\ request' = req
      /\ UNCHANGED now
      /\ AssessmentUnchanged
      /\ IF cid = NoClient
         THEN /\ response' = MissingId
              /\ calls' = <<>>
              /\ ChatUnchanged
         ELSE IF raw.kind # "str"
         THEN \* .strip() of a number: the exception is not caught
              /\ response' = Response(500, [ok |-> FALSE])
              /\ calls' = <<>>
              /\ ChatUnchanged
         ELSE \E message \in {Strip(raw.val)} :
           IF message = <<>>
           THEN /\ response' = Response(400, [ok |-> FALSE, message |-> "Message cannot be empty"])
                /\ calls' = <<>>
                /\ ChatUnchanged
           ELSE \E made \in {chat_calls(message, ContextOf(CLIENT_CHATS[cid]), available, result)} :
             LET last == made[Len(made)]
                 chat_record == [message |-> message, response |-> result.message, at |-> now]
             IN  /\ calls' = made
                 /\ IF last.fn = "contains_sensitive" /\ last.result
                    THEN /\ response' = CrisisResponse
                         /\ ChatUnchanged
                    ELSE IF last.fn = "is_available" /\ ~last.result
                    THEN /\ response' = UnavailableResponse
                         /\ ChatUnchanged
                    ELSE IF last.fn = "generate_response" /\ last.result.success
                    THEN /\ CLIENT_CHATS' =
                              [CLIENT_CHATS EXCEPT ![cid] = trim_chats(Append(@, chat_record))]
                         /\ chatLog' = [chatLog EXCEPT ![cid] = Append(@, chat_record)]
                         /\ response' = Response(200, [ok |-> TRUE, type |-> "support",
                              message |-> result.message,
                              model |-> DictGet(result, "model", "unknown")])
                    ELSE /\ response' = Response(200, [ok |-> TRUE, type |-> "support",
                              message |-> result.message])
                         /\ ChatUnchanged

----------------------------------------------------------------------------
(* chat_history, views.py:325-337 *)

chat_history(req) ==
  LET cid == get_client_id(req)
  IN  /\ request' = req
      /\ calls' = <<>>
      /\ UNCHANGED now
      /\ AssessmentUnchanged
      /\ ChatUnchanged
      /\ IF cid = NoClient
         THEN response' = MissingId
         ELSE response' = Response(200, [ok |-> TRUE,
                data |-> LastN(CLIENT_CHATS[cid], HistoryWindow)])

----------------------------------------------------------------------------
(* The stores after import (views.py:13-17), and the passing of time *)

Init ==
  /\ CLIENT_ASSESSMENTS = [c \in Clients |-> <<>>]
  /\ CLIENT_CHATS = [c \in Clients |-> <<>>]
  /\ now = 0
  /\ request = [op |-> "none"]
  /\ response = NoResponse
  /\ calls = <<>>
  /\ submitted = [c \in Clients |-> <<>>]
  /\ chatLog = [c \in Clients |-> <<>>]

\* datetime.utcnow() moves on between two requests
Tick ==
  /\ now < MaxClock
  /\ now' = now + 1
  /\ UNCHANGED <<CLIENT_ASSESSMENTS, CLIENT_CHATS, request, response, calls, submitted, chatLog>>

RECURSIVE TotalLen(_, _)
TotalLen(store, cs) ==
  IF cs = {} THEN 0
  ELSE LET c == CHOOSE x \in cs : TRUE IN Len(store[c]) + TotalLen(store, cs \ {c})

----------------------------------------------------------------------------
(* Requests to the assessment endpoints *)

Repeat(x, n) == [i \in 1..n |-> x]

\* what a client may put in one position of the answers list
AnswerValues ==
  {JInt(n) : n \in -1..4}
    \cup {JFloat(5), JFloat(35), JFloat(-5)}
    \cup {JStr(<<"2">>), JStr(<<" ", "3">>), JStr(<<"x">>), None}

\* the "answers" of a payload that are no list of 9
MisshapenAnswers ==
  { None,
    JList(<<>>),
    JList(Repeat(JInt(1), 8)),
    JList(Repeat(JInt(1), 10)),
    JStr(Repeat("1", 9)) }

\* six equal integer answers, then three of any kind: every total 0..27 occurs
ScoreAnswers ==
  { JList(Repeat(JInt(a), 6) \o <<x, y, z>>) :
      a \in 0..3, x \in AnswerValues, y \in AnswerValues, z \in AnswerValues }
    \cup MisshapenAnswers

\* the first request the service answers
ScoreOnce ==
  /\ request.op = "none"
  /\ \E cid \in {"c1", NoClient}, answers \in ScoreAnswers :
       assessment_submit([op |-> "assessment_submit", cid |-> cid, answers |-> answers])

NextScore == ScoreOnce

SpecScore == Init /\ [][NextScore]_vars

\* eight equal integer answers, then one of any kind; one bad first answer
HistoryAnswers ==
  { JList(Repeat(JInt(0), 8) \o <<x>>) :
      x \in {JInt(0), JInt(1), JInt(4), JInt(-1), JFloat(35), JStr(<<"x">>), None} }
    \cup { JList(Repeat(JInt(2), 8) \o <<JInt(0)>>),
           JList(<<JStr(<<"x">>)>> \o Repeat(JInt(0), 8)) }
    \cup MisshapenAnswers

SubmitStep ==
  /\ TotalLen(CLIENT_ASSESSMENTS, Clients) < MaxAssessments
  /\ \E cid \in Clients \cup {NoClient}, answers \in HistoryAnswers :
       assessment_submit([op |-> "assessment_submit", cid |-> cid, answers |-> answers])

LastStep ==
  \E cid \in Clients \cup {NoClient} :
    assessment_last([op |-> "assessment_last", cid |-> cid])

NextAssessment == SubmitStep \/ LastStep \/ Tick

SpecAssessment == Init /\ [][NextAssessment]_vars

----------------------------------------------------------------------------
(* Requests to the chat endpoints *)

\* the "message" of a payload: missing, blank, padded, plain, with a keyword in
\* capitals, with a Chinese keyword, and a number
ChatMessages ==
  { None,
    JStr(<<" ", " ">>),
    JStr(<<" ", "h", "i", "\n">>),
    JStr(<<"o", "k">>),
    JStr(<<"I", " ", "K", "I", "L", "L", " ", "M", "Y", "S", "E", "L", "F", " ",
           "i", "n", " ", "a", " ", "g", "a", "m", "e">>),
    JStr(<<"U+6211", "U+60F3", "U+81EA", "U+6740">>),
    JInt(5) }

ChatStep ==
  /\ TotalLen(chatLog, Clients) < MaxChats
  /\ \E cid \in Clients \cup {NoClient}, message \in ChatMessages, ai \in AiAnswers :
       chat([op |-> "chat", cid |-> cid, message |-> message], ai[1], ai[2])

HistoryStep ==
  \E cid \in Clients \cup {NoClient} :
    chat_history([op |-> "chat_history", cid |-> cid])

NextChat == ChatStep \/ HistoryStep \/ Tick

SpecChat == Init /\ [][NextChat]_vars

\* one exchange of the 49 a client has had before
EarlierExchange == [message |-> <<"o", "k">>, response |-> "reply one", at |-> 0]

\* client c1 is one exchange short of the cap of 50
InitNearCap ==
  /\ CLIENT_ASSESSMENTS = [c \in Clients |-> <<>>]
  /\ CLIENT_CHATS = [c \in Clients |->
       IF c = "c1" THEN Repeat(EarlierExchange, ChatCap - 1) ELSE <<>>]
  /\ now = 0
  /\ request = [op |-> "none"]
  /\ response = NoResponse
  /\ calls = <<>>
  /\ submitted = [c \in Clients |-> <<>>]
  /\ chatLog = CLIENT_CHATS

ChatStepNearCap ==
  /\ TotalLen(chatLog, Clients) < (ChatCap - 1) + MaxChats
  /\ \E cid \in Clients \cup {NoClient}, message \in ChatMessages, ai \in AiAnswers :
       chat([op |-> "chat", cid |-> cid, message |-> message], ai[1], ai[2])

NextChatCap == ChatStepNearCap \/ HistoryStep \/ Tick

SpecChatCap == InitNearCap /\ [][NextChatCap]_vars

----------------------------------------------------------------------------
(* Calls of contains_sensitive on its own *)

\* str.upper() on one character
UpperChar(c) ==
  IF \E i \in 1..26 : LowerChars[i] = c
  THEN UpperChars[CHOOSE i \in 1..26 : LowerChars[i] = c]
  ELSE c

Upper(t) == [i \in 1..Len(t) |-> UpperChar(t[i])]

\* every other letter in capitals
AltCase(t) == [i \in 1..Len(t) |-> IF i % 2 = 1 THEN UpperChar(t[i]) ELSE LowerChar(t[i])]

\* text that holds no keyword: a keyword cut short, split, or with a letter changed
NearMisses ==
  { <<"s", "u", "i", "c", "i", "d">>,
    <<"k", "i", "l", "l", " ", " ", "m", "y", "s", "e", "l", "f">>,
    <<"k", "i", "l", "l", " ", "m", "y", " ", "s", "e", "l", "f">>,
    <<"m", "y", " ", "l", "i", "f", "e">>,
    <<"f", "e", "e", "l", " ", "o", "k", "a", "y">>,
    <<"U+81EA", " ", "U+6740">>,
    <<"U+60F3", "U+6D3B">>,
    <<"U+8F7B", "U+677E">> }

GateCores ==
  {keywords[n] : n \in 1..Len(keywords)}
    \cup {Upper(keywords[n]) : n \in 1..4}
    \cup {AltCase(keywords[n]) : n \in 1..4}
    \cup NearMisses

GatePrefixes == { <<>>, <<"I", " ">>, <<"e", "n", "d", " ">> }
GateSuffixes == { <<>>, <<" ", "i", "n", " ", "a", " ", "G", "a", "m", "e">>, <<"U+3002">> }

\* what contains_sensitive may be given: nothing, numbers, and text
GateTexts ==
  {None, JStr(<<>>), JInt(0), JInt(5)}
    \cup {JStr(pre \o core \o suf) : pre \in GatePrefixes, core \in GateCores, suf \in GateSuffixes}

InitGate ==
  /\ CLIENT_ASSESSMENTS = [c \in Clients |-> <<>>]
  /\ CLIENT_CHATS = [c \in Clients |-> <<>>]
  /\ now = 0
  /\ request \in {[op |-> "contains_sensitive", text |-> t] : t \in GateTexts}
  /\ response = NoResponse
  /\ calls = <<>>
  /\ submitted = [c \in Clients |-> <<>>]
  /\ chatLog = [c \in Clients |-> <<>>]

GateCall ==
  /\ calls = <<>>
  /\ calls' = << Call("contains_sensitive", <<request.text>>, contains_sensitive(request.text)) >>
  /\ UNCHANGED <<CLIENT_ASSESSMENTS, CLIENT_CHATS, now, request, response, submitted, chatLog>>

NextGate == GateCall

SpecGate == InitGate /\ [][NextGate]_vars

----------------------------------------------------------------------------
(* The service as a whole *)

Next == SubmitStep \/ LastStep \/ ChatStep \/ HistoryStep \/ Tick

Spec == Init /\ [][Next]_vars

----------------------------------------------------------------------------
(* What the claims speak of *)

\* the request was an assessment submission and it was accepted
Accepted == request.op = "assessment_submit" /\ response.status = 200

\* the result the client got
Result == response.body.data

\* the submitted answers are nine JSON integers in 0..3
IntegerAnswers(a) ==
  /\ a.kind = "list"
  /\ Len(a.val) = 9
  /\ \A i \in 1..9 : a.val[i].kind = "int" /\ a.val[i].val \in 0..3

\* a submitted answer is a number, or text that reads as an integer
IsNumber(x) == x.kind \in {"int", "float"} \/ (x.kind = "str" /\ ParseInt(x.val).ok)

\* the value of a submitted number, in tenths
Tenths(x) ==
  CASE x.kind = "int" -> 10 * x.val
    [] x.kind = "float" -> x.val
    [] OTHER -> 10 * ParseInt(x.val).val

RECURSIVE SumTenths(_)
SumTenths(xs) == IF xs = <<>> THEN 0 ELSE Tenths(Head(xs)) + SumTenths(Tail(xs))

\* the band table as the code has it
BandOfTotal(total) ==
  CASE total \in 0..4 -> "none-minimal"
    [] total \in 5..9 -> "mild"
    [] total \in 10..14 -> "moderate"
    [] total \in 15..19 -> "moderately severe"
    [] total \in 20..27 -> "severe"

\* the band table as the specification words it
SpecBandOfTotal(total) ==
  CASE total \in 0..4 -> "none-minimal"
    [] total \in 5..9 -> "mild"
    [] total \in 10..14 -> "moderate"
    [] total \in 15..19 -> "moderately-severe"
    [] total \in 20..27 -> "severe"

----------------------------------------------------------------------------
(* C1 *)

\* C1 (as amended): for every total in 0..27 the level of grade_phq9, and the level
\* of every accepted submission, is the band-table value of the total, where the
\* band 15..19 is named 'moderately severe' (with a space): <= 4 'none-minimal',
\* 5..9 'mild', 10..14 'moderate', 15..19 'moderately severe', >= 20 'severe'.
C1_LevelIsBandOfTotal ==
  /\ \A t \in 0..27 : grade_phq9(t) = BandOfTotal(t)
  /\ Accepted => /\ Result.total \in 0..27
                 /\ Result.level = BandOfTotal(Result.total)
                 /\ \A c \in Clients : \A i \in 1..Len(CLIENT_ASSESSMENTS[c]) :
                      CLIENT_ASSESSMENTS[c][i].level = BandOfTotal(CLIENT_ASSESSMENTS[c][i].total)

\* C1 (original): the level of every accepted submission is the band-table value
\* with the band 15..19 named 'moderately-severe', and is one of the five names
\* none-minimal, mild, moderate, moderately-severe, severe.
C1_LevelIsSpecBand ==
  Accepted => /\ Result.level = SpecBandOfTotal(Result.total)
              /\ Result.level \in
                   {"none-minimal", "mild", "moderate", "moderately-severe", "severe"}

\* an accepted submission whose total is at the lower edge of the band 15..19
C1_Witness ==
  /\ Accepted
  /\ Result.total = 15
  /\ Result.level = "moderately severe"

----------------------------------------------------------------------------
(* C2 *)

\* C2: for every accepted submission of nine integer answers in 0..3, crisis is
\* true exactly when the 9th answer is greater than 0, in the result and in the
\* stored record, whatever the other answers, the total and the level are.
C2_CrisisIffItem9 ==
  (Accepted /\ IntegerAnswers(request.answers)) =>
    LET rec == CLIENT_ASSESSMENTS[request.cid][Len(CLIENT_ASSESSMENTS[request.cid])]
    IN  /\ Result.crisis <=> (request.answers.val[9].val > 0)
        /\ rec.crisis <=> (request.answers.val[9].val > 0)

\* the ninth answer alone is positive, next to a positive eighth answer without it
C2_Witness ==
  /\ Accepted
  /\ request.answers = JList(Repeat(JInt(0), 8) \o <<JInt(1)>>)
  /\ Result.crisis
  /\ Result.total = 1
  /\ Result.level = "none-minimal"

----------------------------------------------------------------------------
(* C3 *)

\* C3: for every accepted submission riskLevel is 'high' when crisis is true,
\* otherwise 'moderate' when total >= 15, otherwise 'low': a total in 15..19
\* without crisis gives 'moderate', and crisis with a total below 15 gives 'high'.
C3_RiskLevel ==
  Accepted =>
    Result.ai.risk_level =
      CASE Result.crisis -> "high"
        [] ~Result.crisis /\ Result.total >= 15 -> "moderate"
        [] OTHER -> "low"

\* crisis with a total of 3: high, not low
C3_Witness ==
  /\ Accepted
  /\ request.answers = JList(Repeat(JInt(0), 8) \o <<JInt(3)>>)
  /\ Result.total = 3
  /\ Result.crisis
  /\ Result.ai.risk_level = "high"

----------------------------------------------------------------------------
(* C4 *)

\* C4: for every accepted submission the total of the result equals the exact
\* arithmetic sum of the nine submitted answers, with no clamping or rounding,
\* and lies in 0..27.
C4_TotalIsExactSum ==
  Accepted =>
    /\ 10 * Result.total = SumTenths(request.answers.val)
    /\ Result.total \in 0..27

----------------------------------------------------------------------------
(* C5 *)

\* the answers the claim says are rejected
InvalidAnswers(a) ==
  \/ a.kind # "list"
  \/ Len(a.val) # 9
  \/ \E i \in 1..Len(a.val) :
       \/ ~IsNumber(a.val[i])
       \/ Tenths(a.val[i]) % 10 # 0
       \/ Tenths(a.val[i]) < 0
       \/ Tenths(a.val[i]) > 30

\* C5: assessment_submit rejects the input, with an error response and no score,
\* whenever the answers are not exactly 9, or an answer is not representable as
\* an integer, or an answer lies outside 0..3.
C5_InvalidIsRejected ==
  (request.op = "assessment_submit" /\ InvalidAnswers(request.answers)) =>
    /\ response.status = 400
    /\ ~response.body.ok

----------------------------------------------------------------------------
(* C10 *)

LastOf(s) == s[Len(s)]

\* C10: the assessment history of a client is append-only and uncapped: a step
\* changes a client's list only by an accepted assessment_submit of that client,
\* which appends one record (the result it returns) and changes nothing before
\* it and no other client's list; and assessment_last returns the data of the
\* client's most recent accepted submission, or no data when there is none.
C10_AppendOnlyAndLast ==
  /\ [][ \A c \in Clients :
           \/ CLIENT_ASSESSMENTS'[c] = CLIENT_ASSESSMENTS[c]
           \/ /\ request'.op = "assessment_submit"
              /\ request'.cid = c
              /\ response'.status = 200
              /\ Len(CLIENT_ASSESSMENTS'[c]) = Len(CLIENT_ASSESSMENTS[c]) + 1
              /\ SubSeq(CLIENT_ASSESSMENTS'[c], 1, Len(CLIENT_ASSESSMENTS[c])) = CLIENT_ASSESSMENTS[c]
              /\ RecordData(LastOf(CLIENT_ASSESSMENTS'[c])) = response'.body.data
              /\ \A d \in Clients \ {c} : CLIENT_ASSESSMENTS'[d] = CLIENT_ASSESSMENTS[d] ]_vars
  /\ [][ (now' = now /\ request'.op = "assessment_submit" /\ response'.status = 200) =>
           Len(CLIENT_ASSESSMENTS'[request'.cid]) = Len(CLIENT_ASSESSMENTS[request'.cid]) + 1 ]_vars
  /\ [](\A c \in Clients :
          /\ Len(CLIENT_ASSESSMENTS[c]) = Len(submitted[c])
          /\ \A i \in 1..Len(submitted[c]) : RecordData(CLIENT_ASSESSMENTS[c][i]) = submitted[c][i])
  /\ []((request.op = "assessment_last" /\ request.cid \in Clients) =>
          /\ response.status = 200
          /\ response.body.data =
               IF submitted[request.cid] = <<>> THEN None ELSE LastOf(submitted[request.cid]))

\* assessment_last after two accepted submissions of one client with different results
C10_Witness ==
  /\ request.op = "assessment_last"
  /\ request.cid = "c1"
  /\ Len(submitted["c1"]) = 2
  /\ submitted["c1"][1] # submitted["c1"][2]
  /\ response.body.data = submitted["c1"][2]

----------------------------------------------------------------------------
(* C6 *)

\* a chat request with a client id and a message that is not blank
ChatWithMessage ==
  /\ request.op = "chat"
  /\ request.cid \in Clients
  /\ request.message.kind = "str"
  /\ Strip(request.message.val) # <<>>

LastCall == calls[Len(calls)]

\* C6: in every chat request with a client id and a non-empty message the gate
\* is the first call made, on the message, and no use of the generation backend
\* comes before it; when the gate returns true no other call is made (neither
\* is_available nor generate_response) and the response is the crisis response:
\* type 'crisis', the fixed safety message, a non-empty hotline list.
C6_GateBeforeBackend ==
  ChatWithMessage =>
    /\ calls # <<>>
    /\ calls[1].fn = "contains_sensitive"
    /\ calls[1].args = <<Strip(request.message.val)>>
    /\ \A i \in 2..Len(calls) : calls[i].fn \in {"is_available", "generate_response"}
    /\ calls[1].result =>
         /\ Len(calls) = 1
         /\ response.status = 200
         /\ response.body.ok
         /\ response.body.type = "crisis"
         /\ response.body.message = CrisisResponse.body.message
         /\ response.body.message # ""
         /\ Len(response.body.hotlines) > 0
         /\ \A i \in 1..Len(response.body.hotlines) :
              response.body.hotlines[i].label # "" /\ response.body.hotlines[i].number # ""

\* a message with a Chinese keyword got the crisis response and the backend no call
C6_Witness ==
  /\ ChatWithMessage
  /\ request.message = JStr(<<"U+6211", "U+60F3", "U+81EA", "U+6740">>)
  /\ Len(calls) = 1
  /\ calls[1].result
  /\ response.body.type = "crisis"

----------------------------------------------------------------------------
(* C8 *)

\* no generated reply is delivered: the gate fired, or the backend said it is
\* unavailable, or it was invoked and reported failure
NoReplyDelivered ==
  /\ calls # <<>>
  /\ \/ LastCall.fn = "contains_sensitive" /\ LastCall.result
     \/ LastCall.fn = "is_available" /\ ~LastCall.result
     \/ LastCall.fn = "generate_response" /\ ~LastCall.result.success

----------------------------------------------------------------------------
(* C9 *)

\* the request just answered was a chat of client c whose generation succeeded
GenerationSucceeded(c) ==
  /\ request.op = "chat"
  /\ request.cid = c
  /\ calls # <<>>
  /\ LastCall.fn = "generate_response"
  /\ LastCall.result.success

\* C9: each client's stored chat history is, in request order, the most recent
\* at most 50 exchanges of the client's own requests whose generation succeeded;
\* a request that ends otherwise (crisis response, unavailable fallback,
\* generation failure, 400) changes no client's history, and a request never
\* changes another client's history.
C9_ChatHistory ==
  /\ [](\A c \in Clients :
          LET kept == Len(CLIENT_CHATS[c])
              all == Len(chatLog[c])
          IN  /\ kept = IF all > 50 THEN 50 ELSE all
              /\ \A i \in 1..kept : CLIENT_CHATS[c][i] = chatLog[c][all - kept + i])
  /\ [][ \A c \in Clients :
           IF now' = now /\ GenerationSucceeded(c)'
           THEN /\ Len(chatLog'[c]) = Len(chatLog[c]) + 1
                /\ SubSeq(chatLog'[c], 1, Len(chatLog[c])) = chatLog[c]
                /\ chatLog'[c][Len(chatLog'[c])].message = Strip(request'.message.val)
                /\ chatLog'[c][Len(chatLog'[c])].response = response'.body.message
           ELSE /\ chatLog'[c] = chatLog[c]
                /\ CLIENT_CHATS'[c] = CLIENT_CHATS[c] ]_vars

\* the 51st exchange of a client pushed the oldest one out
C9_Witness ==
  /\ Len(chatLog["c1"]) = 51
  /\ Len(CLIENT_CHATS["c1"]) = 50
  /\ CLIENT_CHATS["c1"][49] # CLIENT_CHATS["c1"][50]
  /\ CLIENT_CHATS["c1"][50] = chatLog["c1"][51]
  /\ CLIENT_CHATS["c1"][48] = EarlierExchange

----------------------------------------------------------------------------
(* C7 *)

\* two characters that are the same letter, whatever their case
SameLetter(a, b) ==
  a = b \/ \E n \in 1..26 : {a, b} = {UpperChars[n], LowerChars[n]}

\* keyword k stands in text t at offset i, case disregarded
KeywordAt(k, t, i) == \A j \in 1..Len(k) : SameLetter(t[i + j], k[j])

HoldsKeyword(t) ==
  \E n \in 1..Len(keywords) : \E i \in 0..(Len(t) - Len(keywords[n])) :
    KeywordAt(keywords[n], t, i)

====
